---- MODULE Spec2Model ----
(***************************************************************************)
(* A model of import_COCO_dataset.py: the interactive script that plans a  *)
(* train/validation/test split of COCO-2017 samples, retrieves positive   *)
(* and negative samples, assigns them to the three splits, optionally      *)
(* writes a license report, and exports the splits.                        *)
(*                                                                         *)
(* Split proportions are Python floats read from decimal text; the model   *)
(* keeps them as integer tenths (0.7 is 7).  For every total up to 44, and *)
(* for 100 and 300, Python's round(total * (n/10)) equals the round-half-  *)
(* to-even of the exact rational total*n/10, and round(a/b) of two small   *)
(* integers is always the half-even rounding of the exact quotient, so the *)
(* exact arithmetic below is what the script computes on these inputs.     *)
(***************************************************************************)
EXTENDS Integers, Sequences, FiniteSets, TLC

VARIABLES
    pc,          \* position of the running script
    self,        \* the Dataset object (dataset_params in main)
    plan,        \* load_dataset: the six counts unpacked from split_dataset()
    positives,   \* load_dataset: samples returned for the positive request
    negatives,   \* load_dataset: samples returned for the negative request
    count,       \* load_dataset: the loop counter
    datasets,    \* the three fo.Dataset objects, each an ordered list of samples
    zoo_calls,   \* the calls made to foz.load_zoo_dataset so far
    exc,         \* the exception that ended the run, "none" while it runs
    cleanup,     \* main: what happened to the cache-clear step
    contents,    \* clear_existing_data: os.listdir(fiftyone_path)
    item,        \* clear_existing_data: index of the item the loop is at
    attempted,   \* clear_existing_data: indices whose delete call was made
    printed,     \* clear_existing_data: the messages printed by the loop
    report,      \* license_info: what was written to license_info.txt
    exported     \* export_dataset: the split directories written

vars == <<pc, self, plan, positives, negatives, count, datasets, zoo_calls,
          exc, cleanup, contents, item, attempted, printed, report, exported>>

----------------------------------------------------------------------------
(* Bounds of the model. *)

MaxTotal == 20
MaxRatio == 4
MaxAssignTotal == 6
MaxStream == 3
MaxInputTotal == 2
MaxItems == 2
MaxTally == 3

(* Split proportions are kept in tenths: the float f is FracDen * f. *)
FracDen == 10

----------------------------------------------------------------------------
(* Python arithmetic. *)

Abs(x) == IF x < 0 THEN -x ELSE x

(* The sequences over S of length at most n. *)
SeqsUpTo(S, n) == UNION {[1..k -> S] : k \in 0..n}

(* Floor division and modulus for a divisor of either sign. *)
FloorDiv(n, d) == IF d > 0 THEN n \div d ELSE (-n) \div (-d)

FloorMod(n, d) == IF d > 0 THEN n % d ELSE (-n) % (-d)

(* A faulty rounding: a tie goes up instead of to the even neighbour. *)
round_half_up(n, d) ==
    LET q == FloorDiv(n, d)
        r == FloorMod(n, d)
    IN  IF 2 * r < Abs(d) THEN q ELSE q + 1

(* Python 3 round() of the quotient n/d: round half to even. *)
round(n, d) ==
    LET q == FloorDiv(n, d)
        r == FloorMod(n, d)
    IN  IF 2 * r < Abs(d) THEN q
        ELSE IF 2 * r > Abs(d) THEN q + 1
        ELSE IF q % 2 = 0 THEN q ELSE q + 1

----------------------------------------------------------------------------
(* The Dataset object. *)

(* Dataset.__init__: classes and label_type are wrapped in one-element lists. *)
Dataset(total_number_of_images, train_split, val_split, test_split, classes, label_type, pos_neg_ratio) ==
    [total_number_of_images |-> total_number_of_images,
     train_split |-> train_split,
     val_split |-> val_split,
     test_split |-> test_split,
     classes |-> <<classes>>,
     label_type |-> <<label_type>>,
     pos_neg_ratio |-> pos_neg_ratio]

(* Dataset.default_settings: 300 images, 0.7 / 0.2 / 0.1, keyboard,        *)
(* segmentations, 10 positives to 1 negative.                              *)
default_settings(s) ==
    [s EXCEPT !.total_number_of_images = 300,
              !.train_split = 7,
              !.val_split = 2,
              !.test_split = 1,
              !.classes = <<"keyboard">>,
              !.label_type = <<"segmentations">>,
              !.pos_neg_ratio = <<10, 1>>]

(* The outcome of a call: a returned value or a raised exception. *)
Return(v) == [raised |-> "none", value |-> v]

Raise(e) == [raised |-> e, value |-> <<>>]

(* A faulty split: the positives computed from the ratio like the          *)
(* negatives, not as the rest of split_images.                             *)
split_counts_by_ratio(split_images, total, ratio_negative) ==
    LET split_negatives == round(split_images, total) * ratio_negative
    IN  <<split_negatives, round(split_images, total) * (total - ratio_negative)>>

(* One split of split_dataset: <<negatives, positives>> of split_images.   *)
split_counts(split_images, total, ratio_negative) ==
    LET split_negatives == round(split_images, total) * ratio_negative
    IN  <<split_negatives, split_images - split_negatives>>

(* Dataset.split_dataset.  pos_neg_ratio[0] and [1] are the first two      *)
(* elements of the list; a shorter list raises IndexError, a zero sum      *)
(* raises ZeroDivisionError at the first division.                         *)
split_dataset(s) ==
    IF Len(s.pos_neg_ratio) < 2 THEN Raise("IndexError")
    ELSE
    LET total == s.pos_neg_ratio[1] + s.pos_neg_ratio[2]
        train_split_images == round(s.total_number_of_images * s.train_split, FracDen)
        val_split_images == round(s.total_number_of_images * s.val_split, FracDen)
        test_split_images == round(s.total_number_of_images * s.test_split, FracDen)
    IN  IF total = 0 THEN Raise("ZeroDivisionError")
        ELSE LET train == split_counts(train_split_images, total, s.pos_neg_ratio[2])
                 val == split_counts(val_split_images, total, s.pos_neg_ratio[2])
                 test == split_counts(test_split_images, total, s.pos_neg_ratio[2])
             IN  Return(<<train[1], train[2], val[1], val[2], test[1], test[2]>>)

(* Names for the positions of the returned tuple, as load_dataset unpacks it. *)
train_negatives == plan[1]
train_positives == plan[2]
val_negatives == plan[3]
val_positives == plan[4]
test_negatives == plan[5]
test_positives == plan[6]

----------------------------------------------------------------------------
(* Samples and the external dataset zoo. *)

(* The license strings of the samples the zoo returns, in the order it     *)
(* returns them (repeating): a known license name, a string that is no     *)
(* license name, and a sample without a license.                           *)
ZooLicenses == <<"Attribution License", "unknown-string", "None">>

(* A sample is opaque to the script: the model keeps which request it came *)
(* from, its position in the returned collection, and its license string.  *)
Sample(kind, position) ==
    [kind |-> kind, position |-> position,
     license |-> ZooLicenses[(position % Len(ZooLicenses)) + 1]]

Stream(kind, n) == [i \in 1..n |-> Sample(kind, i - 1)]

(* What foz.load_zoo_dataset may return: the script does not check the     *)
(* size of the collection against max_samples.                             *)
ZooStreams(kind) == {Stream(kind, n) : n \in 0..MaxStream}

Splits == <<"train", "validation", "test">>

EmptyDatasets == [split \in {"train", "validation", "test"} |-> <<>>]

(* Faulty thresholds: <= where the loops compare with <. *)
bucket_inclusive(n, first, second) ==
    IF n <= first THEN "train"
    ELSE IF n <= first + second THEN "validation"
    ELSE "test"

(* The if / elif / else of both assignment loops. *)
bucket(n, first, second) ==
    IF n < first THEN "train"
    ELSE IF n < first + second THEN "validation"
    ELSE "test"

add_sample(d, split, sample) == [d EXCEPT ![split] = Append(@, sample)]

----------------------------------------------------------------------------
(* Dataset.load_dataset. *)

(* A faulty first line: an exception of split_dataset is swallowed and the *)
(* run goes on with an empty plan.                                         *)
LoadSplitSwallows ==
    /\ pc = "load_dataset"
    /\ LET r == split_dataset(self)
       IN  /\ pc' = "load_positives"
           /\ plan' = IF r.raised # "none" THEN <<0, 0, 0, 0, 0, 0>> ELSE r.value
           /\ datasets' = EmptyDatasets
           /\ UNCHANGED exc
    /\ UNCHANGED <<self, positives, negatives, count, zoo_calls, cleanup,
                   contents, item, attempted, printed, report, exported>>

(* Line 163 and 167: the plan is computed and the three datasets created;  *)
(* an exception of split_dataset is not caught here or in main.            *)
LoadSplit ==
    /\ pc = "load_dataset"
    /\ LET r == split_dataset(self)
       IN  IF r.raised # "none"
           THEN /\ pc' = "aborted"
                /\ exc' = r.raised
                /\ UNCHANGED <<plan, datasets>>
           ELSE /\ pc' = "load_positives"
                /\ plan' = r.value
                /\ datasets' = EmptyDatasets
                /\ UNCHANGED exc
    /\ UNCHANGED <<self, positives, negatives, count, zoo_calls, cleanup,
                   contents, item, attempted, printed, report, exported>>

(* Lines 169-181: positives are requested only for a nonzero first ratio. *)
LoadPositives ==
    /\ pc = "load_positives"
    /\ IF self.pos_neg_ratio[1] # 0
       THEN /\ zoo_calls' = Append(zoo_calls,
                 [split |-> "train", classes |-> self.classes,
                  max_samples |-> train_positives + val_positives + test_positives])
            /\ \E ok \in BOOLEAN :
                 IF ok
                 THEN /\ \E stream \in ZooStreams("positive") : positives' = stream
                      /\ pc' = "load_negatives"
                      /\ UNCHANGED exc
                 ELSE /\ pc' = "aborted"
                      /\ exc' = "CollaboratorError"
                      /\ UNCHANGED positives
       ELSE /\ pc' = "load_negatives"
            /\ UNCHANGED <<positives, zoo_calls, exc>>
    /\ UNCHANGED <<self, plan, negatives, count, datasets, cleanup,
                   contents, item, attempted, printed, report, exported>>

(* Lines 183-197: negatives likewise; then count = 0. *)
LoadNegatives ==
    /\ pc = "load_negatives"
    /\ IF self.pos_neg_ratio[2] # 0
       THEN /\ zoo_calls' = Append(zoo_calls,
                 [split |-> "validation", classes |-> <<>>,
                  max_samples |-> train_negatives + val_negatives + test_negatives])
            /\ \E ok \in BOOLEAN :
                 IF ok
                 THEN /\ \E stream \in ZooStreams("negative") : negatives' = stream
                      /\ pc' = "assign_positives"
                      /\ count' = 0
                      /\ UNCHANGED exc
                 ELSE /\ pc' = "aborted"
                      /\ exc' = "CollaboratorError"
                      /\ UNCHANGED <<negatives, count>>
       ELSE /\ pc' = "assign_positives"
            /\ count' = 0
            /\ UNCHANGED <<negatives, zoo_calls, exc>>
    /\ UNCHANGED <<self, plan, positives, datasets, cleanup,
                   contents, item, attempted, printed, report, exported>>

(* Lines 198-206: one iteration of the loop over positives. *)
AssignPositive ==
    /\ pc = "assign_positives"
    /\ self.pos_neg_ratio[1] # 0
    /\ count < Len(positives)
    /\ datasets' = add_sample(datasets,
                      bucket(count, train_positives, val_positives),
                      positives[count + 1])
    /\ count' = count + 1
    /\ UNCHANGED <<pc, self, plan, positives, negatives, zoo_calls, exc, cleanup,
                   contents, item, attempted, printed, report, exported>>

(* Line 207: the loop over positives is over (or was skipped); count = 0. *)
EndPositives ==
    /\ pc = "assign_positives"
    /\ self.pos_neg_ratio[1] = 0 \/ count >= Len(positives)
    /\ count' = 0
    /\ pc' = "assign_negatives"
    /\ UNCHANGED <<self, plan, positives, negatives, datasets, zoo_calls, exc,
                   cleanup, contents, item, attempted, printed, report, exported>>

(* Lines 208-216: one iteration of the loop over negatives. *)
AssignNegative ==
    /\ pc = "assign_negatives"
    /\ self.pos_neg_ratio[2] # 0
    /\ count < Len(negatives)
    /\ datasets' = add_sample(datasets,
                      bucket(count, train_negatives, val_negatives),
                      negatives[count + 1])
    /\ count' = count + 1
    /\ UNCHANGED <<pc, self, plan, positives, negatives, zoo_calls, exc, cleanup,
                   contents, item, attempted, printed, report, exported>>

(* Line 218: both loops are over. *)
EndNegatives ==
    /\ pc = "assign_negatives"
    /\ self.pos_neg_ratio[2] = 0 \/ count >= Len(negatives)
    /\ pc' = "load_return"
    /\ UNCHANGED <<self, plan, positives, negatives, count, datasets, zoo_calls,
                   exc, cleanup, contents, item, attempted, printed, report,
                   exported>>

(* Line 219: return datasets; the locals of load_dataset are gone. *)
LoadReturn ==
    /\ pc = "load_return"
    /\ pc' = "main_license"
    /\ plan' = <<>>
    /\ positives' = <<>>
    /\ negatives' = <<>>
    /\ count' = 0
    /\ UNCHANGED <<self, datasets, zoo_calls, exc, cleanup, contents, item,
                   attempted, printed, report, exported>>

----------------------------------------------------------------------------
(* clear_existing_data. *)

(* What the script can find at ~/fiftyone: no such path, or a listing.  An *)
(* item is a regular file, a link, a directory, or something else (none of *)
(* isfile, islink, isdir holds); fails says whether deleting it raises.    *)
ItemKinds == {"file", "link", "dir", "other"}

Items ==
    {it \in [kind : ItemKinds, fails : BOOLEAN] : it.kind = "other" => ~it.fails}

Listings == UNION {[1..n -> Items] : n \in 0..MaxItems}

(* Lines 24-30: a missing path or an empty listing returns at once; the    *)
(* listing itself is outside any try, so an error of os.listdir (the path  *)
(* is no directory, or may not be read) ends the run.                      *)
ClearList ==
    /\ pc = "clear_existing_data"
    /\ \E exists \in BOOLEAN : \E listable \in BOOLEAN : \E listing \in Listings :
         IF ~exists
         THEN /\ pc' = "main_settings"
              /\ cleanup' = "done"
              /\ UNCHANGED <<contents, item, exc>>
         ELSE IF ~listable
         THEN /\ pc' = "aborted"
              /\ exc' = "OSError"
              /\ UNCHANGED <<contents, item, cleanup>>
         ELSE IF listing = <<>>
         THEN /\ pc' = "main_settings"
              /\ cleanup' = "done"
              /\ UNCHANGED <<contents, item, exc>>
         ELSE /\ pc' = "clear_loop"
              /\ contents' = listing
              /\ item' = 1
              /\ UNCHANGED <<cleanup, exc>>
    /\ UNCHANGED <<self, plan, positives, negatives, count, datasets, zoo_calls,
                   attempted, printed, report, exported>>

(* The message the loop prints for an item, if any. *)
message(it) ==
    IF it.kind = "other" THEN <<>>
    ELSE IF it.fails THEN <<"Error deleting">>
    ELSE IF it.kind = "dir" THEN <<"Deleted folder">>
    ELSE <<"Deleted file">>

(* A faulty iteration: no try / except, a failed delete ends the run. *)
ClearItemPropagates ==
    /\ pc = "clear_loop"
    /\ item <= Len(contents)
    /\ attempted' = IF contents[item].kind = "other" THEN attempted
                    ELSE attempted \cup {item}
    /\ IF contents[item].fails
       THEN /\ pc' = "aborted"
            /\ exc' = "OSError"
            /\ UNCHANGED <<printed, item>>
       ELSE /\ printed' = printed \o message(contents[item])
            /\ item' = item + 1
            /\ UNCHANGED <<pc, exc>>
    /\ UNCHANGED <<self, plan, positives, negatives, count, datasets, zoo_calls,
                   cleanup, contents, report, exported>>

(* Lines 31-41, one iteration: os.remove for a file or link, shutil.rmtree *)
(* for a directory, nothing for anything else; an exception of the delete  *)
(* is caught and printed, and the loop goes on.                            *)
ClearItem ==
    /\ pc = "clear_loop"
    /\ item <= Len(contents)
    /\ attempted' = IF contents[item].kind = "other" THEN attempted
                    ELSE attempted \cup {item}
    /\ printed' = printed \o message(contents[item])
    /\ item' = item + 1
    /\ UNCHANGED <<pc, self, plan, positives, negatives, count, datasets,
                   zoo_calls, exc, cleanup, contents, report, exported>>

(* The loop is over: back in main, the locals of the call are gone. *)
ClearReturn ==
    /\ pc = "clear_loop"
    /\ item > Len(contents)
    /\ pc' = "main_settings"
    /\ cleanup' = "done"
    /\ contents' = <<>>
    /\ item' = 0
    /\ attempted' = {}
    /\ printed' = <<>>
    /\ UNCHANGED <<self, plan, positives, negatives, count, datasets, zoo_calls,
                   exc, report, exported>>

----------------------------------------------------------------------------
(* Dataset.user_input.  A line of input is either not a number or the      *)
(* number it spells; the split proportions are spelled in tenths.          *)

NotANumber == [number |-> FALSE, value |-> 0]

Numeral(v) == [number |-> TRUE, value |-> v]

TotalInputs == {NotANumber} \cup {Numeral(v) : v \in -1..MaxInputTotal}

SplitInputs == {NotANumber} \cup {Numeral(v) : v \in {-1, 0, 3, 5, 7, FracDen, FracDen + 1}}

RatioTokens == {NotANumber} \cup {Numeral(v) : v \in -1..1}

(* ratio_input.split(":"): one token or more. *)
RatioInputs == UNION {[1..n -> RatioTokens] : n \in 1..3}

ClassInputs == {<<"help">>, <<"keyboard">>}

LabelInputs == {"segmentations", "detections"}

UnchangedByInput ==
    UNCHANGED <<plan, positives, negatives, count, datasets, zoo_calls, exc,
                cleanup, contents, item, attempted, printed, report, exported>>

(* Lines 84-91: int(input()) is stored, and accepted when positive. *)
InputTotal ==
    /\ pc = "input_total"
    /\ \E line \in TotalInputs :
         IF ~line.number
         THEN UNCHANGED <<pc, self>>
         ELSE /\ self' = [self EXCEPT !.total_number_of_images = line.value]
              /\ pc' = IF line.value > 0 THEN "input_train" ELSE "input_total"
    /\ UnchangedByInput

(* A proportion read by float(input()): stored, then checked against 0..1. *)
in_range(v) == ~(v < 0 \/ v > FracDen)

(* Lines 96-100. *)
InputTrain ==
    /\ pc = "input_train"
    /\ \E line \in SplitInputs :
         IF ~line.number
         THEN UNCHANGED <<pc, self>>
         ELSE /\ self' = [self EXCEPT !.train_split = line.value]
              /\ pc' = IF in_range(line.value) THEN "input_val" ELSE "input_train"
    /\ UnchangedByInput

(* Lines 102-106: a failure goes back to the train prompt. *)
InputVal ==
    /\ pc = "input_val"
    /\ \E line \in SplitInputs :
         IF ~line.number
         THEN /\ pc' = "input_train"
              /\ UNCHANGED self
         ELSE /\ self' = [self EXCEPT !.val_split = line.value]
              /\ pc' = IF in_range(line.value) THEN "input_test" ELSE "input_train"
    /\ UnchangedByInput

(* abs(total_split - 1.0) > 0.001, in tenths. *)
splits_rejected(train, val, test) == 1000 * Abs(train + val + test - FracDen) > FracDen

(* Lines 108-120: the third proportion and the check of the sum. *)
InputTest ==
    /\ pc = "input_test"
    /\ \E line \in SplitInputs :
         IF ~line.number
         THEN /\ pc' = "input_train"
              /\ UNCHANGED self
         ELSE /\ self' = [self EXCEPT !.test_split = line.value]
              /\ pc' = IF /\ in_range(line.value)
                          /\ ~splits_rejected(self.train_split, self.val_split, line.value)
                       THEN "input_ratio"
                       ELSE "input_train"
    /\ UnchangedByInput

(* Lines 125-131: every token must be an integer; nothing else is checked. *)
InputRatio ==
    /\ pc = "input_ratio"
    /\ \E tokens \in RatioInputs :
         IF \E i \in 1..Len(tokens) : ~tokens[i].number
         THEN UNCHANGED <<pc, self>>
         ELSE /\ self' = [self EXCEPT !.pos_neg_ratio =
                            [i \in 1..Len(tokens) |-> tokens[i].value]]
              /\ pc' = "input_classes"
    /\ UnchangedByInput

(* Lines 134-150: "help" prints the class list and asks again. *)
InputClasses ==
    /\ pc = "input_classes"
    /\ \E line \in ClassInputs :
         IF line = <<"help">>
         THEN UNCHANGED <<pc, self>>
         ELSE /\ self' = [self EXCEPT !.classes = line]
              /\ pc' = "input_label"
    /\ UnchangedByInput

(* Lines 153-159, and the return to main (line 292). *)
InputLabel ==
    /\ pc = "input_label"
    /\ \E line \in LabelInputs : self' = [self EXCEPT !.label_type = <<line>>]
    /\ pc' = "load_dataset"
    /\ UnchangedByInput

----------------------------------------------------------------------------
(* License and license_info. *)

(* The members of the License enumeration, in definition order. *)
License ==
    << [member |-> "CC_BY", id |-> 1, license_name |-> "Attribution License"],
       [member |-> "CC_BY_SA", id |-> 2, license_name |-> "Attribution-ShareAlike License"],
       [member |-> "CC_BY_ND", id |-> 3, license_name |-> "Attribution-NoDerivs License"],
       [member |-> "CC_BY_NC", id |-> 4, license_name |-> "Attribution-NonCommercial License"],
       [member |-> "CC_BY_NC_SA", id |-> 5,
        license_name |-> "Attribution-NonCommercial-ShareAlike License"],
       [member |-> "CC_BY_NC_ND", id |-> 6,
        license_name |-> "Attribution-NonCommercial-NoDerivs License"],
       [member |-> "OTHER", id |-> 7, license_name |-> "No known copyright restrictions"],
       [member |-> "CC0", id |-> 8, license_name |-> "United States Government Work"] >>

Members == {License[i].member : i \in 1..Len(License)}

(* A faulty fallback: OTHER instead of CC0. *)
from_name_other(name) ==
    LET hits == {i \in 1..Len(License) : License[i].license_name = name}
    IN  IF hits = {} THEN "OTHER"
        ELSE License[CHOOSE i \in hits : \A j \in hits : i <= j].member

(* License.from_name: the first member with that name, else CC0. *)
from_name(name) ==
    LET hits == {i \in 1..Len(License) : License[i].license_name = name}
    IN  IF hits = {} THEN "CC0"
        ELSE License[CHOOSE i \in hits : \A j \in hits : i <= j].member

(* Lines 264-267: the counter of one split, sample by sample. *)
RECURSIVE tally(_, _)
tally(samples, license_counter) ==
    IF samples = <<>> THEN license_counter
    ELSE tally(Tail(samples),
               [license_counter EXCEPT ![from_name(Head(samples).license)] = @ + 1])

(* license_info: per split, the total and the count of every member. *)
license_info(d) ==
    [i \in 1..Len(Splits) |->
        [split |-> Splits[i],
         total |-> Len(d[Splits[i]]),
         counts |-> tally(d[Splits[i]], [m \in Members |-> 0])]]

----------------------------------------------------------------------------
(* main. *)

(* Lines 276-279: the dataset name is read and its folder created. *)
MainStart ==
    /\ pc = "main_start"
    /\ pc' = "main_clear"
    /\ UNCHANGED <<self, plan, positives, negatives, count, datasets, zoo_calls,
                   exc, cleanup, contents, item, attempted, printed, report,
                   exported>>

(* Lines 281-283. *)
MainClear ==
    /\ pc = "main_clear"
    /\ \E answer \in {"y", "n"} :
         IF answer = "y"
         THEN /\ pc' = "clear_existing_data"
              /\ cleanup' = "running"
         ELSE /\ pc' = "main_settings"
              /\ cleanup' = "skipped"
    /\ UNCHANGED <<self, plan, positives, negatives, count, datasets, zoo_calls,
                   exc, contents, item, attempted, printed, report, exported>>

(* Lines 285-290: Dataset(0, 0, 0, 0, "", "", [0, 0]), then the defaults   *)
(* or the prompts.                                                         *)
MainSettings ==
    /\ pc = "main_settings"
    /\ \E answer \in {"y", "n"} :
         IF answer = "y"
         THEN /\ self' = default_settings(Dataset(0, 0, 0, 0, "", "", <<0, 0>>))
              /\ pc' = "load_dataset"
         ELSE /\ self' = Dataset(0, 0, 0, 0, "", "", <<0, 0>>)
              /\ pc' = "input_total"
    /\ UnchangedByInput

(* Lines 296-298: the license report is written on "y". *)
MainLicense ==
    /\ pc = "main_license"
    /\ \E answer \in {"y", "n"} :
         report' = IF answer = "y" THEN license_info(datasets) ELSE report
    /\ pc' = "main_export"
    /\ UNCHANGED <<self, plan, positives, negatives, count, datasets, zoo_calls,
                   exc, cleanup, contents, item, attempted, printed, exported>>

(* Dataset.export_dataset, lines 300-302: one export per split. *)
MainExport ==
    /\ pc = "main_export"
    /\ exported' = [i \in 1..Len(Splits) |->
                      [split |-> Splits[i],
                       label_field |-> self.label_type[1],
                       classes |-> self.classes,
                       samples |-> Len(datasets[Splits[i]])]]
    /\ pc' = "done"
    /\ UNCHANGED <<self, plan, positives, negatives, count, datasets, zoo_calls,
                   exc, cleanup, contents, item, attempted, printed, report>>

----------------------------------------------------------------------------
(* Requests and the specifications of the planner and of load_dataset. *)

(* Three proportions in tenths that sum to 1.0. *)
SplitTriples ==
    {t \in (0..FracDen) \X (0..FracDen) \X (0..FracDen) : t[1] + t[2] + t[3] = FracDen}

(* Ratios of non-negative integers, not both zero. *)
Ratios(n) == {r \in (0..n) \X (0..n) : r[1] + r[2] > 0}

(* Ratios with a positive sum, a component of which may be negative. *)
SignedRatios(n) == {r \in (-1..n) \X (-1..n) : r[1] + r[2] > 0}

Requests(totals, ratios) ==
    {Dataset(T, t[1], t[2], t[3], "keyboard", "segmentations", r) :
        T \in totals, t \in SplitTriples, r \in ratios}

InitAt(position, requests) ==
    /\ pc = position
    /\ self \in requests
    /\ plan = <<>>
    /\ positives = <<>>
    /\ negatives = <<>>
    /\ count = 0
    /\ datasets = EmptyDatasets
    /\ zoo_calls = <<>>
    /\ exc = "none"
    /\ cleanup = "skipped"
    /\ contents = <<>>
    /\ item = 0
    /\ attempted = {}
    /\ printed = <<>>
    /\ report = <<>>
    /\ exported = <<>>

(* The planner on every request of the grid with a positive ratio sum, the *)
(* worked example (100 images, 4:1) and the defaults (300 images, 10:1).   *)
InitPlan ==
    InitAt("load_dataset",
           Requests((0..MaxTotal) \cup {100, 300},
                    SignedRatios(MaxRatio) \cup {<<10, 1>>}))

NextPlan == LoadSplit

SpecPlan == InitPlan /\ [][NextPlan]_vars

(* load_dataset from its first line to its return. *)
InitAssign == InitAt("load_dataset", Requests(0..MaxAssignTotal, Ratios(MaxRatio)))

NextAssign ==
    \/ LoadSplit
    \/ LoadPositives
    \/ LoadNegatives
    \/ AssignPositive
    \/ EndPositives
    \/ AssignNegative
    \/ EndNegatives

SpecAssign == InitAssign /\ [][NextAssign]_vars

(* The license report on datasets of up to MaxTally samples in all, each   *)
(* with one of the eight license names, another string, or no license.     *)
LicenseTags ==
    {License[i].license_name : i \in 1..Len(License)} \cup {"unknown-string", "None"}

Tagged(tags, from, to) ==
    [i \in 1..(to - from) |->
        [kind |-> "positive", position |-> from + i - 1, license |-> tags[from + i]]]

TallyDatasets ==
    {[split \in {"train", "validation", "test"} |->
        CASE split = "train" -> Tagged(c.tags, 0, c.a)
          [] split = "validation" -> Tagged(c.tags, c.a, c.b)
          [] split = "test" -> Tagged(c.tags, c.b, Len(c.tags))] :
     c \in {x \in [tags : SeqsUpTo(LicenseTags, MaxTally), a : 0..MaxTally, b : 0..MaxTally] :
              x.a <= x.b /\ x.b <= Len(x.tags)}}

InitLicense ==
    /\ pc = "main_license"
    /\ self = default_settings(Dataset(0, 0, 0, 0, "", "", <<0, 0>>))
    /\ plan = <<>>
    /\ positives = <<>>
    /\ negatives = <<>>
    /\ count = 0
    /\ datasets \in TallyDatasets
    /\ zoo_calls = <<>>
    /\ exc = "none"
    /\ cleanup = "skipped"
    /\ contents = <<>>
    /\ item = 0
    /\ attempted = {}
    /\ printed = <<>>
    /\ report = <<>>
    /\ exported = <<>>

NextLicense == MainLicense

SpecLicense == InitLicense /\ [][NextLicense]_vars

(* The whole script, from the first prompt of main. *)
Init ==
    /\ pc = "main_start"
    /\ self = Dataset(0, 0, 0, 0, "", "", <<0, 0>>)
    /\ plan = <<>>
    /\ positives = <<>>
    /\ negatives = <<>>
    /\ count = 0
    /\ datasets = EmptyDatasets
    /\ zoo_calls = <<>>
    /\ exc = "none"
    /\ cleanup = "pending"
    /\ contents = <<>>
    /\ item = 0
    /\ attempted = {}
    /\ printed = <<>>
    /\ report = <<>>
    /\ exported = <<>>

Next ==
    \/ MainStart
    \/ MainClear
    \/ ClearList
    \/ ClearItem
    \/ ClearReturn
    \/ MainSettings
    \/ InputTotal
    \/ InputTrain
    \/ InputVal
    \/ InputTest
    \/ InputRatio
    \/ InputClasses
    \/ InputLabel
    \/ LoadSplit
    \/ LoadPositives
    \/ LoadNegatives
    \/ AssignPositive
    \/ EndPositives
    \/ AssignNegative
    \/ EndNegatives
    \/ LoadReturn
    \/ MainLicense
    \/ MainExport

Spec == Init /\ [][Next]_vars

----------------------------------------------------------------------------
(* Properties of the planner (SpecPlan). *)

(* r is the integer nearest to n/d, the even one of the two on a tie:      *)
(* what Python's round(n/d) returns, stated without computing it.          *)
IsRounded(r, n, d) ==
    /\ 2 * Abs(n - r * d) <= Abs(d)
    /\ 2 * Abs(n - r * d) = Abs(d) => r % 2 = 0

Planned == pc = "load_positives"

PlanTotal == plan[1] + plan[2] + plan[3] + plan[4] + plan[5] + plan[6]

(* C1: for a valid request with a positive ratio sum, the negatives and    *)
(* positives of each split add up to round(total_images * fraction) of     *)
(* that split, so the six counts add up to the sum of the three rounded    *)
(* split sizes.                                                            *)
C1_SplitSums ==
    Planned =>
        /\ IsRounded(train_negatives + train_positives,
                     self.total_number_of_images * self.train_split, FracDen)
        /\ IsRounded(val_negatives + val_positives,
                     self.total_number_of_images * self.val_split, FracDen)
        /\ IsRounded(test_negatives + test_positives,
                     self.total_number_of_images * self.test_split, FracDen)
        /\ PlanTotal = round(self.total_number_of_images * self.train_split, FracDen)
                     + round(self.total_number_of_images * self.val_split, FracDen)
                     + round(self.total_number_of_images * self.test_split, FracDen)

(* A plan whose six counts do not add up to total_images (rounding drift), *)
(* with negatives and positives both present.                              *)
C1_Witness ==
    /\ Planned
    /\ PlanTotal # self.total_number_of_images
    /\ train_negatives > 0
    /\ train_positives > 0

(* C2: for a valid request (a ratio of two non-negative integers, not both *)
(* zero) all six counts are non-negative.                                  *)
C2_NonNegative ==
    (Planned /\ self.pos_neg_ratio[1] >= 0 /\ self.pos_neg_ratio[2] >= 0)
    => \A i \in 1..6 : plan[i] >= 0

(* One split follows the reference planner: split_images is the rounded    *)
(* share, the negatives are round(split_images / ratio_total) times the    *)
(* negative ratio, the positives are the rest.                             *)
FollowsReference(split_negatives, split_positives, fraction) ==
    LET T == self.total_number_of_images
        ratio_total == self.pos_neg_ratio[1] + self.pos_neg_ratio[2]
    IN  \E split_images \in 0..T :
          /\ IsRounded(split_images, T * fraction, FracDen)
          /\ \E q \in 0..split_images :
               /\ IsRounded(q, split_images, ratio_total)
               /\ split_negatives = q * self.pos_neg_ratio[2]
               /\ split_positives = split_images - split_negatives

(* C7: split_dataset is the reference planner applied to each split; the   *)
(* worked example gives (16, 64, 2, 8, 2, 8); no images give six zeros; a  *)
(* zero negative ratio gives no negatives and positives = split_images.    *)
C7_Reference ==
    Planned =>
        /\ FollowsReference(train_negatives, train_positives, self.train_split)
        /\ FollowsReference(val_negatives, val_positives, self.val_split)
        /\ FollowsReference(test_negatives, test_positives, self.test_split)
        /\ (/\ self.total_number_of_images = 100
            /\ <<self.train_split, self.val_split, self.test_split>> = <<8, 1, 1>>
            /\ self.pos_neg_ratio = <<4, 1>>)
           => plan = <<16, 64, 2, 8, 2, 8>>
        /\ self.total_number_of_images = 0 => plan = <<0, 0, 0, 0, 0, 0>>
        /\ self.pos_neg_ratio[2] = 0 =>
             /\ train_negatives = 0 /\ val_negatives = 0 /\ test_negatives = 0
             /\ IsRounded(train_positives,
                          self.total_number_of_images * self.train_split, FracDen)
             /\ IsRounded(val_positives,
                          self.total_number_of_images * self.val_split, FracDen)
             /\ IsRounded(test_positives,
                          self.total_number_of_images * self.test_split, FracDen)

(* The worked example has been planned. *)
C7_Witness ==
    /\ Planned
    /\ self.total_number_of_images = 100
    /\ <<self.train_split, self.val_split, self.test_split>> = <<8, 1, 1>>
    /\ self.pos_neg_ratio = <<4, 1>>
    /\ plan = <<16, 64, 2, 8, 2, 8>>

----------------------------------------------------------------------------
(* Properties of the assignment loops of load_dataset (SpecAssign). *)

Assigning == pc \in {"assign_positives", "assign_negatives", "load_return"}

(* How many samples of a kind a split holds. *)
Placed(split, kind) ==
    Cardinality({i \in 1..Len(datasets[split]) : datasets[split][i].kind = kind})

(* The positions (in the returned collection) of the samples of a kind     *)
(* that a split holds.                                                     *)
PositionsIn(split, kind) ==
    {datasets[split][i].position :
        i \in {j \in 1..Len(datasets[split]) : datasets[split][j].kind = kind}}

Quota(split, kind) ==
    IF kind = "positive"
    THEN CASE split = "train" -> train_positives
           [] split = "validation" -> val_positives
           [] split = "test" -> test_positives
    ELSE CASE split = "train" -> train_negatives
           [] split = "validation" -> val_negatives
           [] split = "test" -> test_negatives

Requested(kind) ==
    Quota("train", kind) + Quota("validation", kind) + Quota("test", kind)

Kinds == {"positive", "negative"}

SplitNames == {"train", "validation", "test"}

(* C3: with both collections of exactly the requested sizes, each split    *)
(* ends up with exactly its planned positives and negatives.               *)
C3_RoundTrip ==
    (/\ pc = "load_return"
     /\ self.pos_neg_ratio[1] # 0 => Len(positives) = Requested("positive")
     /\ self.pos_neg_ratio[2] # 0 => Len(negatives) = Requested("negative"))
    => \A split \in SplitNames : \A kind \in Kinds :
          Placed(split, kind) = Quota(split, kind)

(* How many items of a collection the loops have gone through. *)
Processed(kind) ==
    IF kind = "positive"
    THEN IF self.pos_neg_ratio[1] = 0 THEN 0
         ELSE IF pc = "assign_positives" THEN count ELSE Len(positives)
    ELSE IF self.pos_neg_ratio[2] = 0 \/ pc = "assign_positives" THEN 0
         ELSE IF pc = "assign_negatives" THEN count ELSE Len(negatives)

Belongs(split, k, first, second) ==
    CASE split = "train" -> k < first
      [] split = "validation" -> ~(k < first) /\ k < first + second
      [] split = "test" -> ~(k < first) /\ ~(k < first + second)

Max(a, b) == IF a > b THEN a ELSE b

C5_Starvation ==
    (/\ Assigning
     /\ self.pos_neg_ratio[1] # 0
     /\ Len(positives) < Requested("positive")
     /\ Placed("test", "positive") > 0)
    => /\ Placed("train", "positive") = train_positives
       /\ Placed("validation", "positive") = val_positives

----------------------------------------------------------------------------
(* Properties of the whole script (Spec). *)

BeforePlanning ==
    pc \in {"main_start", "main_clear", "clear_existing_data", "clear_loop",
            "main_settings", "input_total", "input_train", "input_val",
            "input_test", "input_ratio", "input_classes", "input_label",
            "load_dataset"}

(* load_dataset has been entered and its first line executed (a run that   *)
(* ended inside the cleanup never got there).                              *)
LoadEntered == ~BeforePlanning /\ cleanup # "running"

(* user_input has returned, or the defaults were taken. *)
SettingsDone == (pc = "load_dataset" \/ ~BeforePlanning) /\ cleanup # "running"

(* C6: with a ratio whose two components sum to zero, split_dataset raises *)
(* ZeroDivisionError, nothing catches it, and the run ends before any      *)
(* retrieval, assignment, license report or export.                        *)
C6_ZeroRatioAborts ==
    (/\ LoadEntered
     /\ Len(self.pos_neg_ratio) >= 2
     /\ self.pos_neg_ratio[1] + self.pos_neg_ratio[2] = 0)
    => /\ pc = "aborted"
       /\ exc = "ZeroDivisionError"
       /\ zoo_calls = <<>>
       /\ datasets = EmptyDatasets
       /\ report = <<>>
       /\ exported = <<>>

(* The user entered 0:0 and the run has ended with the division error. *)
C6_Witness ==
    /\ pc = "aborted"
    /\ exc = "ZeroDivisionError"
    /\ self.pos_neg_ratio = <<0, 0>>
    /\ self.total_number_of_images > 0

(* C8: once user_input has returned, the request satisfies the data model: *)
(* a positive total, three proportions in [0, 1] summing to 1 within       *)
(* 0.001, and a ratio of exactly two non-negative integers, not both zero. *)
C8_ValidatedRequest ==
    SettingsDone
    => /\ self.total_number_of_images > 0
       /\ \A f \in {self.train_split, self.val_split, self.test_split} :
             0 <= f /\ f <= FracDen
       /\ 1000 * Abs(self.train_split + self.val_split + self.test_split - FracDen)
            <= FracDen
       /\ Len(self.pos_neg_ratio) = 2
       /\ self.pos_neg_ratio[1] >= 0
       /\ self.pos_neg_ratio[2] >= 0
       /\ self.pos_neg_ratio[1] + self.pos_neg_ratio[2] > 0

Deletable(it) == it.kind \in {"file", "link", "dir"}

----------------------------------------------------------------------------
(* Properties of the license report (SpecLicense). *)

LicenseNames == {License[i].license_name : i \in 1..Len(License)}

RECURSIVE SumCounts(_, _)
SumCounts(counts, n) ==
    IF n = 0 THEN 0 ELSE counts[License[n].member] + SumCounts(counts, n - 1)

LicensesOf(samples) == [j \in 1..Len(samples) |-> samples[j].license]

(* C10: every sample of a split is counted under exactly one member, the   *)
(* one with its license name or CC0 when no member has it, so the counts   *)
(* of a split sum to its total; two "Attribution License" and one          *)
(* "unknown-string" give CC_BY 2, CC0 1, the others 0, total 3.            *)
C10_Tally ==
    report # <<>> =>
        \A i \in 1..Len(Splits) :
            LET samples == datasets[Splits[i]]
                r == report[i]
            IN  /\ r.split = Splits[i]
                /\ r.total = Len(samples)
                /\ \A m \in 1..Len(License) :
                     r.counts[License[m].member] =
                        Cardinality({j \in 1..Len(samples) :
                           \/ samples[j].license = License[m].license_name
                           \/ /\ License[m].member = "CC0"
                              /\ samples[j].license \notin LicenseNames})
                /\ SumCounts(r.counts, Len(License)) = r.total
                /\ LicensesOf(samples)
                     = <<"Attribution License", "Attribution License", "unknown-string">>
                   => r.counts = [m \in Members |->
                                    CASE m = "CC_BY" -> 2 [] m = "CC0" -> 1 [] OTHER -> 0]

(* The report of the example has been written. *)
C10_Witness ==
    /\ report # <<>>
    /\ LicensesOf(datasets["train"])
         = <<"Attribution License", "Attribution License", "unknown-string">>
    /\ report[1].total = 3
    /\ report[1].counts["CC_BY"] = 2
    /\ report[1].counts["CC0"] = 1

====
